---- MODULE Spec2Model ----
(***************************************************************************)
(* YT-Embed, background.js revision 1.1.0.                                 *)
(*                                                                         *)
(* getYouTubeEmbedUrl is a pure function over strings; the command         *)
(* listener is an asynchronous handler that suspends at chrome.tabs.query  *)
(* and at chrome.tabs.update.  Strings are TLA+ strings over printable     *)
(* ASCII; the platform's URL, URLSearchParams, parseInt and RegExp are     *)
(* modelled by what they compute on that alphabet (WHATWG URL Standard,    *)
(* ECMA-262), because every claim about the function is a claim about      *)
(* what those conversions do to the text.                                  *)
(***************************************************************************)
EXTENDS Integers, Sequences, FiniteSets, TLC

(***************************************************************************)
(* Characters                                                              *)
(***************************************************************************)

\* Printable ASCII, U+0020 .. U+007E, in code order: code = 31 + index.  The
\* grave accent (U+0060) cannot be written in a TLA+ string; its place is held
\* by a space and it is not a character of the model's alphabet.
Ascii == " !\"#$%&'()*+,-./0123456789:;<=>?@ABCDEFGHIJKLMNOPQRSTUVWXYZ[\\]^_ abcdefghijklmnopqrstuvwxyz{|}~"

\* The codes of the alphabet's characters.
InAlphabet(code) == code >= 32 /\ code <= 126 /\ code # 96

SetOf(s) == { SubSeq(s, i, i) : i \in 1..Len(s) }

Digit == SetOf("0123456789")
UpperAlpha == SetOf("ABCDEFGHIJKLMNOPQRSTUVWXYZ")
LowerAlpha == SetOf("abcdefghijklmnopqrstuvwxyz")
Alpha == UpperAlpha \cup LowerAlpha
AlphaNum == Alpha \cup Digit
HexDigit == Digit \cup SetOf("abcdefABCDEF")

IndexIn(c, s) == CHOOSE i \in 1..Len(s) : SubSeq(s, i, i) = c

CharCode(c) == 31 + IndexIn(c, Ascii)

CharOf(code) == SubSeq(Ascii, code - 31, code - 31)

ToLowerChar(c) == IF c \in UpperAlpha THEN CharOf(CharCode(c) + 32) ELSE c

RECURSIVE ToLower(_)
ToLower(s) == IF s = "" THEN "" ELSE ToLowerChar(Head(s)) \o ToLower(Tail(s))

HexVal(c) ==
  IF c \in Digit THEN CharCode(c) - 48
  ELSE IF c \in SetOf("ABCDEF") THEN CharCode(c) - 55
  ELSE CharCode(c) - 87

HexChar(n) == SubSeq("0123456789ABCDEF", n + 1, n + 1)

\* "%XX" for one ASCII character (percent-encode of its single UTF-8 byte).
PercentEncodeChar(c) ==
  "%" \o HexChar(CharCode(c) \div 16) \o HexChar(CharCode(c) % 16)

StartsWith(s, p) == Len(s) >= Len(p) /\ SubSeq(s, 1, Len(p)) = p

\* String.prototype.substring(n) with 0 <= n.
Substring(s, n) == IF n >= Len(s) THEN "" ELSE SubSeq(s, n + 1, Len(s))

\* Length of the longest prefix of s whose characters are all in set.
RECURSIVE PrefixLen(_, _)
PrefixLen(s, set) ==
  IF s = "" \/ Head(s) \notin set THEN 0 ELSE 1 + PrefixLen(Tail(s), set)

AllIn(s, set) == PrefixLen(s, set) = Len(s)

\* Optional values: null is the empty tuple, a present value a 1-tuple.
Null == << >>
Some(v) == << v >>
Val(o) == o[1]

(***************************************************************************)
(* new URL(string): the WHATWG basic URL parser without a base URL, on the *)
(* model's alphabet.  Outside the model: file: URLs, IPv6 literals and     *)
(* hosts whose last label is a number (the IPv4 parser); no enumerated     *)
(* input has them.                                                         *)
(***************************************************************************)

RECURSIVE TrimLeft(_)
TrimLeft(s) == IF s # "" /\ Head(s) = " " THEN TrimLeft(Tail(s)) ELSE s

RECURSIVE TrimRight(_)
TrimRight(s) ==
  IF s # "" /\ SubSeq(s, Len(s), Len(s)) = " "
  THEN TrimRight(SubSeq(s, 1, Len(s) - 1))
  ELSE s

\* Leading and trailing C0 control or space are removed (space is the only
\* such character of the alphabet).
Trim(s) == TrimRight(TrimLeft(s))

SpecialSchemes == {"ftp", "http", "https", "ws", "wss"}

DefaultPort(scheme) ==
  CASE scheme = "ftp" -> 21
    [] scheme \in {"http", "ws"} -> 80
    [] scheme \in {"https", "wss"} -> 443
    [] OTHER -> -1

SchemeChars == AlphaNum \cup SetOf("+-.")

\* Percent-encode sets, restricted to the alphabet.
FragmentEncodeSet == SetOf(" \"<>")
QueryEncodeSet == SetOf(" \"#<>")
SpecialQueryEncodeSet == QueryEncodeSet \cup {"'"}
PathEncodeSet == QueryEncodeSet \cup SetOf("?^{}")
\* application/x-www-form-urlencoded: everything but alphanumerics and *-._
UrlencodedKeep == AlphaNum \cup SetOf("*-._")

ForbiddenHostCodePoints == SetOf(" #/:<>?@[\\]^|")
ForbiddenDomainCodePoints == ForbiddenHostCodePoints \cup {"%"}

RECURSIVE PercentEncode(_, _)
PercentEncode(s, set) ==
  IF s = "" THEN ""
  ELSE (IF Head(s) \in set THEN PercentEncodeChar(Head(s)) ELSE Head(s))
       \o PercentEncode(Tail(s), set)

IsEscape(s) ==
  /\ Len(s) >= 3
  /\ Head(s) = "%"
  /\ SubSeq(s, 2, 2) \in HexDigit
  /\ SubSeq(s, 3, 3) \in HexDigit

EscapeByte(s) == 16 * HexVal(SubSeq(s, 2, 2)) + HexVal(SubSeq(s, 3, 3))

\* Percent-decode followed by UTF-8 decode.  A byte outside the alphabet is
\* outside the model; its escape is kept as text.
RECURSIVE PercentDecode(_)
PercentDecode(s) ==
  IF s = "" THEN ""
  ELSE IF IsEscape(s) /\ InAlphabet(EscapeByte(s))
       THEN CharOf(EscapeByte(s)) \o PercentDecode(Substring(s, 3))
       ELSE Head(s) \o PercentDecode(Tail(s))

\* Length of the longest prefix of s with no character in set.
RECURSIVE PrefixLenNot(_, _)
PrefixLenNot(s, set) ==
  IF s = "" \/ Head(s) \in set THEN 0 ELSE 1 + PrefixLenNot(Tail(s), set)

\* Position of the last occurrence of character c in s, 0 if none.
RECURSIVE LastIndexOf(_, _)
LastIndexOf(s, c) ==
  IF s = "" THEN 0
  ELSE IF SubSeq(s, Len(s), Len(s)) = c THEN Len(s)
  ELSE LastIndexOf(SubSeq(s, 1, Len(s) - 1), c)

RECURSIVE DigitsToNat(_)
DigitsToNat(s) ==
  IF s = "" THEN 0
  ELSE 10 * DigitsToNat(SubSeq(s, 1, Len(s) - 1))
       + HexVal(SubSeq(s, Len(s), Len(s)))

RECURSIVE NatToString(_)
NatToString(n) ==
  IF n < 10 THEN HexChar(n) ELSE NatToString(n \div 10) \o HexChar(n % 10)

Failure == [ok |-> FALSE]

\* scheme start state, scheme state, no scheme state (no base: failure).
SchemeAt(s, k) ==
  IF k < Len(s) /\ SubSeq(s, k + 1, k + 1) = ":"
  THEN [ok |-> TRUE, scheme |-> ToLower(SubSeq(s, 1, k)),
        rest |-> Substring(s, k + 1)]
  ELSE Failure

ParseScheme(s) ==
  IF s = "" \/ Head(s) \notin Alpha THEN Failure
  ELSE SchemeAt(s, PrefixLen(s, SchemeChars))

\* host parser: domain (special schemes) or opaque host.
CheckedHost(host, forbidden, mayBeEmpty) ==
  IF (host = "" /\ ~mayBeEmpty) \/ PrefixLenNot(host, forbidden) < Len(host)
  THEN Failure
  ELSE [ok |-> TRUE, host |-> host]

ParseHost(h, special) ==
  IF special
  THEN CheckedHost(ToLower(PercentDecode(h)), ForbiddenDomainCodePoints, FALSE)
  ELSE CheckedHost(h, ForbiddenHostCodePoints, TRUE)

\* authority state, host state, port state.  auth is the text up to the path.
\* port state: portText is the text after the host's colon ("" without one).
ParsePort(portText, scheme) ==
  IF ~AllIn(portText, Digit) \/ Len(portText) > 5 THEN Failure
  ELSE IF DigitsToNat(portText) > 65535 THEN Failure
  ELSE [ok |-> TRUE,
        port |-> IF portText # "" /\ DigitsToNat(portText) # DefaultPort(scheme)
                 THEN Some(DigitsToNat(portText)) ELSE Null]

HostAndPort(host, port) ==
  IF ~host.ok \/ ~port.ok THEN Failure
  ELSE [ok |-> TRUE, host |-> host.host, port |-> port.port]

\* host state: hostport is the authority after its credentials, colon the
\* length of its part before the first colon.
ParseHostPort(hostport, colon, scheme, hadAt) ==
  IF colon = 0 /\ (scheme \in SpecialSchemes \/ colon < Len(hostport) \/ hadAt)
  THEN Failure
  ELSE HostAndPort(ParseHost(SubSeq(hostport, 1, colon), scheme \in SpecialSchemes),
                   ParsePort(Substring(hostport, colon + 1), scheme))

SplitHostPort(hostport, scheme, hadAt) ==
  ParseHostPort(hostport, PrefixLenNot(hostport, {":"}), scheme, hadAt)

\* authority state: auth is the text up to the path; credentials end at its
\* last "@".
SplitCredentials(auth, at, scheme) ==
  SplitHostPort(Substring(auth, at), scheme, at > 0)

ParseAuthority(auth, scheme) == SplitCredentials(auth, LastIndexOf(auth, "@"), scheme)

IsSingleDot(seg) == ToLower(seg) \in {".", "%2e"}
IsDoubleDot(seg) == ToLower(seg) \in {"..", ".%2e", "%2e.", "%2e%2e"}

\* shorten a path (no file: drive letters in the model).
Shorten(path) == IF path = << >> THEN path ELSE SubSeq(path, 1, Len(path) - 1)

\* path state: text is the path after its first slash, up to "?" or "#";
\* path is the list of segments so far.
\* What one segment does to the path; last: it is not followed by a slash.
AddSegment(path, seg, last) ==
  IF IsDoubleDot(seg)
  THEN IF last THEN Append(Shorten(path), "") ELSE Shorten(path)
  ELSE IF IsSingleDot(seg)
  THEN IF last THEN Append(path, "") ELSE path
  ELSE Append(path, PercentEncode(seg, PathEncodeSet))

RECURSIVE ParsePath(_, _, _)
RECURSIVE ParsePathAt(_, _, _, _)
ParsePathAt(text, path, slashes, k) ==
  IF k = Len(text) THEN AddSegment(path, text, TRUE)
  ELSE ParsePath(Substring(text, k + 1),
                 AddSegment(path, SubSeq(text, 1, k), FALSE), slashes)

ParsePath(text, path, slashes) ==
  ParsePathAt(text, path, slashes, PrefixLenNot(text, slashes))

RECURSIVE JoinPath(_)
JoinPath(path) ==
  IF path = << >> THEN "" ELSE "/" \o Head(path) \o JoinPath(Tail(path))

\* path start state and path state, for a URL with a hierarchical path.
Slashes(special) == IF special THEN SetOf("/\\") ELSE {"/"}

ParsePathStart(text, special) ==
  IF text = "" /\ ~special THEN ""
  ELSE JoinPath(ParsePath(IF text # "" /\ Head(text) \in Slashes(special)
                          THEN Tail(text) ELSE text,
                          << >>, Slashes(special)))

\* query state and fragment state: tail is "", or begins with "?" or "#".
\* fragment state: text is "" or begins with "#".
ParseFragment(text) ==
  IF text = "" THEN Null ELSE Some(PercentEncode(Tail(text), FragmentEncodeSet))

\* query state: tail begins with "?" and its query ends before position h + 1.
ParseQueryAt(tail, h, special) ==
  [query |-> Some(PercentEncode(SubSeq(tail, 2, h),
                                IF special THEN SpecialQueryEncodeSet
                                ELSE QueryEncodeSet)),
   fragment |-> ParseFragment(Substring(tail, h))]

ParseQueryFragment(tail, special) ==
  IF tail # "" /\ Head(tail) = "?"
  THEN ParseQueryAt(tail, PrefixLenNot(tail, {"#"}), special)
  ELSE [query |-> Null, fragment |-> ParseFragment(tail)]

\* The parsed URL record, from its parts.
MakeURL(scheme, auth, pathname, qf) ==
  IF ~auth.ok THEN Failure
  ELSE [ok |-> TRUE, scheme |-> scheme, host |-> auth.host, port |-> auth.port,
        pathname |-> pathname, query |-> qf.query, fragment |-> qf.fragment]

SomeHost(auth) ==
  IF ~auth.ok THEN Failure
  ELSE [ok |-> TRUE, host |-> Some(auth.host), port |-> auth.port]

\* afterAuth is the text after the authority, p the length of its path.
ParseAfterAuthority(scheme, auth, afterAuth, p) ==
  MakeURL(scheme, SomeHost(auth),
          ParsePathStart(SubSeq(afterAuth, 1, p), scheme \in SpecialSchemes),
          ParseQueryFragment(Substring(afterAuth, p), scheme \in SpecialSchemes))

\* body is the text after the slashes, a the length of its authority.
ParseAuthorityAt(scheme, body, a) ==
  ParseAfterAuthority(scheme, ParseAuthority(SubSeq(body, 1, a), scheme),
                      Substring(body, a),
                      PrefixLenNot(Substring(body, a), SetOf("?#")))

ParseFromAuthority(scheme, body, ends) ==
  ParseAuthorityAt(scheme, body, PrefixLenNot(body, ends))

\* The states after the scheme, for a special scheme: special authority
\* slashes, special authority ignore slashes, authority, path start.
ParseSpecial(scheme, rest) ==
  ParseFromAuthority(scheme, Substring(rest, PrefixLen(rest, SetOf("/\\"))),
                     SetOf("/\\?#"))

\* The states after the scheme, for any other scheme: path or authority,
\* authority, path start, or opaque path.
NoHost == [ok |-> TRUE, host |-> Null, port |-> Null]

\* rest has no "//": a path after one slash, or an opaque path of length p.
ParseNoAuthority(scheme, rest, p) ==
  MakeURL(scheme, NoHost,
          IF StartsWith(rest, "/")
          THEN JoinPath(ParsePath(SubSeq(rest, 2, p), << >>, {"/"}))
          ELSE SubSeq(rest, 1, p),
          ParseQueryFragment(Substring(rest, p), FALSE))

ParseNonSpecial(scheme, rest) ==
  IF StartsWith(rest, "//")
  THEN ParseFromAuthority(scheme, Substring(rest, 2), SetOf("/?#"))
  ELSE ParseNoAuthority(scheme, rest, PrefixLenNot(rest, SetOf("?#")))

\* new URL(s): a record with ok = FALSE where the constructor throws TypeError.
ParseAfterScheme(sch) ==
  IF ~sch.ok THEN Failure
  ELSE IF sch.scheme \in SpecialSchemes THEN ParseSpecial(sch.scheme, sch.rest)
  ELSE ParseNonSpecial(sch.scheme, sch.rest)

ParseURL(s) == ParseAfterScheme(ParseScheme(Trim(s)))

\* url.hostname
Hostname(url) == IF url.host = Null THEN "" ELSE Val(url.host)

\* url.href: the URL serializer (no parsed URL of the model keeps credentials).
Href(url) ==
  url.scheme \o ":"
  \o (IF url.host = Null THEN ""
      ELSE "//" \o Val(url.host)
           \o (IF url.port = Null THEN "" ELSE ":" \o NatToString(Val(url.port))))
  \o url.pathname
  \o (IF url.query = Null THEN "" ELSE "?" \o Val(url.query))
  \o (IF url.fragment = Null THEN "" ELSE "#" \o Val(url.fragment))


(***************************************************************************)
(* URLSearchParams, parseInt, RegExp.prototype.test                        *)
(***************************************************************************)

RECURSIVE PlusToSpace(_)
PlusToSpace(s) ==
  IF s = "" THEN ""
  ELSE (IF Head(s) = "+" THEN " " ELSE Head(s)) \o PlusToSpace(Tail(s))

\* One name=value chunk of a query string.
ParsePairAt(chunk, k) ==
  << PercentDecode(PlusToSpace(SubSeq(chunk, 1, k))),
     PercentDecode(PlusToSpace(Substring(chunk, k + 1))) >>

ParsePair(chunk) == ParsePairAt(chunk, PrefixLenNot(chunk, {"="}))

\* The application/x-www-form-urlencoded parser: a list of <<name, value>>.
RECURSIVE ParseQuery(_)
RECURSIVE ParseQueryChunk(_, _)
ParseQueryChunk(q, k) ==
  (IF k = 0 THEN << >> ELSE << ParsePair(SubSeq(q, 1, k)) >>)
  \o ParseQuery(Substring(q, k + 1))

ParseQuery(q) ==
  IF q = "" THEN << >> ELSE ParseQueryChunk(q, PrefixLenNot(q, {"&"}))

\* url.searchParams
SearchParams(url) == IF url.query = Null THEN << >> ELSE ParseQuery(Val(url.query))

\* searchParams.has(name)
ParamsHas(params, name) == \E i \in 1..Len(params) : params[i][1] = name

\* searchParams.get(name): the first value of that name, or null.
ParamsGet(params, name) ==
  IF ParamsHas(params, name)
  THEN Some(params[CHOOSE i \in 1..Len(params) :
                     /\ params[i][1] = name
                     /\ \A j \in 1..(i - 1) : params[j][1] # name][2])
  ELSE Null

RECURSIVE RemoveNamed(_, _)
RemoveNamed(params, name) ==
  IF params = << >> THEN << >>
  ELSE IF Head(params)[1] = name THEN RemoveNamed(Tail(params), name)
  ELSE << Head(params) >> \o RemoveNamed(Tail(params), name)

\* searchParams.set(name, value): the first of that name takes the value and
\* the others are removed; with none, the pair is appended.
RECURSIVE ParamsSet(_, _, _)
ParamsSet(params, name, value) ==
  IF params = << >> THEN << <<name, value>> >>
  ELSE IF Head(params)[1] = name
       THEN << <<name, value>> >> \o RemoveNamed(Tail(params), name)
       ELSE << Head(params) >> \o ParamsSet(Tail(params), name, value)

RECURSIVE UrlencodeString(_)
UrlencodeString(s) ==
  IF s = "" THEN ""
  ELSE (IF Head(s) = " " THEN "+"
        ELSE IF Head(s) \in UrlencodedKeep THEN Head(s)
        ELSE PercentEncodeChar(Head(s)))
       \o UrlencodeString(Tail(s))

\* The application/x-www-form-urlencoded serializer.
RECURSIVE SerializeParams(_)
SerializeParams(params) ==
  IF params = << >> THEN ""
  ELSE UrlencodeString(Head(params)[1]) \o "=" \o UrlencodeString(Head(params)[2])
       \o (IF Len(params) > 1 THEN "&" ELSE "")
       \o SerializeParams(Tail(params))

\* The update steps of a URL's searchParams object after set().
WithParams(url, params) ==
  [url EXCEPT !.query = IF params = << >> THEN Null
                        ELSE Some(SerializeParams(params))]

NaN == [nan |-> TRUE]
Number(n) == [nan |-> FALSE, value |-> n]

\* ECMA-262 parseInt(string, 10): leading white space is skipped, one sign is
\* taken, then the longest run of decimal digits; no digit gives NaN.
\* body is the text after the sign, k the length of its run of digits.
ParseDigits(body, k, negative) ==
  IF k = 0 THEN NaN
  ELSE IF negative THEN Number(0 - DigitsToNat(SubSeq(body, 1, k)))
  ELSE Number(DigitsToNat(SubSeq(body, 1, k)))

ParseSigned(t) ==
  IF t # "" /\ Head(t) \in {"+", "-"}
  THEN ParseDigits(Tail(t), PrefixLen(Tail(t), Digit), Head(t) = "-")
  ELSE ParseDigits(t, PrefixLen(t, Digit), FALSE)

ParseInt(str) == ParseSigned(TrimLeft(str))

\* ToString of an integer Number below 10^21 in magnitude.
NumberToString(n) == IF n < 0 THEN "-" \o NatToString(0 - n) ELSE NatToString(n)

\* /^[a-zA-Z0-9_-]+$/.test(s)
PlaylistIdRegexTest(s) == s # "" /\ AllIn(s, AlphaNum \cup SetOf("_-"))

(***************************************************************************)
(* background.js: MODULE YouTube URL Utilities                             *)
(***************************************************************************)

YOUTUBE_HOSTNAMES == {"www.youtube.com", "m.youtube.com", "music.youtube.com", "youtube.com"}

\* The dispatch with the /live/ row left out.
ExtractVideoIdNoLive(url) ==
  IF Hostname(url) \in YOUTUBE_HOSTNAMES
  THEN IF url.pathname = "/watch" THEN ParamsGet(SearchParams(url), "v")
       ELSE IF StartsWith(url.pathname, "/shorts/")
       THEN Some(Substring(url.pathname, Len("/shorts/")))
       ELSE Null
  ELSE IF Hostname(url) = "youtu.be" THEN Some(Substring(url.pathname, 1))
  ELSE Null

\* Lines 35-46: the dispatch on (hostname, pathname); null when no row matches.
ExtractVideoId(url) ==
  IF Hostname(url) \in YOUTUBE_HOSTNAMES
  THEN IF url.pathname = "/watch" THEN ParamsGet(SearchParams(url), "v")
       ELSE IF StartsWith(url.pathname, "/shorts/")
       THEN Some(Substring(url.pathname, Len("/shorts/")))
       ELSE IF StartsWith(url.pathname, "/live/")
       THEN Some(Substring(url.pathname, Len("/live/")))
       ELSE Null
  ELSE IF Hostname(url) = "youtu.be" THEN Some(Substring(url.pathname, 1))
  ELSE Null

\* Line 49: !videoId
Falsy(videoId) == videoId = Null \/ Val(videoId) = ""

\* Line 55: the template literal handed to new URL.
EmbedTemplate(videoId) == "https://www.youtube.com/embed/" \o videoId

\* Lines 59-65: newUrl.searchParams after the timestamp step.
SetStart(startTime, newParams) ==
  IF ~startTime.nan
  THEN Some(ParamsSet(newParams, "start", NumberToString(startTime.value)))
  ELSE Null

StartStep(searchParams, newParams) ==
  IF ParamsHas(searchParams, "t")
  THEN SetStart(ParseInt(Val(ParamsGet(searchParams, "t"))), newParams)
  ELSE Null

\* Lines 68-74: newUrl.searchParams after the playlist step.
SetList(playlistId, newParams) ==
  IF playlistId # "" /\ PlaylistIdRegexTest(playlistId)
  THEN Some(ParamsSet(newParams, "list", playlistId))
  ELSE Null

ListStep(searchParams, newParams) ==
  IF ParamsHas(searchParams, "list")
  THEN SetList(Val(ParamsGet(searchParams, "list")), newParams)
  ELSE Null

\* Lines 55-76: newUrl after both steps.  A step that calls set() rewrites
\* newUrl's query from its parameter list; a step that does not leaves the
\* query text as the parser produced it.
AfterStep(newUrl, step) ==
  IF step = Null THEN newUrl ELSE WithParams(newUrl, Val(step))

AfterStart(searchParams, newUrl) ==
  AfterStep(newUrl, StartStep(searchParams, SearchParams(newUrl)))

AfterList(searchParams, newUrl) ==
  AfterStep(newUrl, ListStep(searchParams, SearchParams(newUrl)))

BuildEmbedUrl(searchParams, newUrl) ==
  AfterList(searchParams, AfterStart(searchParams, newUrl))

\* Lines 24-76, the body of the try block: it ends by a return or by a throw.
\* videoId is the local variable's value when the body ends.
\* Lines 55-76: newUrl is the outcome of new URL on line 55.
TryBuild(url, videoId, newUrl) ==
  IF ~newUrl.ok THEN [threw |-> TRUE, value |-> Null, videoId |-> videoId]
  ELSE [threw |-> FALSE,
        value |-> Some(Href(BuildEmbedUrl(SearchParams(url), newUrl))),
        videoId |-> videoId]

\* Lines 48-76: videoId is the local variable after the dispatch.
TryVideoId(url, videoId) ==
  IF Falsy(videoId) THEN [threw |-> FALSE, value |-> Null, videoId |-> videoId]
  ELSE TryBuild(url, videoId, ParseURL(EmbedTemplate(Val(videoId))))

\* Lines 25-76: url is the outcome of new URL on line 24.
TryParsed(url) ==
  IF ~url.ok THEN [threw |-> TRUE, value |-> Null, videoId |-> Null]
  ELSE IF StartsWith(url.pathname, "/embed/")
  THEN [threw |-> FALSE, value |-> Null, videoId |-> Null]
  ELSE TryVideoId(url, ExtractVideoId(url))

TryBody(urlString) == TryParsed(ParseURL(urlString))

\* A catch clause that logs and throws the error again.
CatchClauseRethrows(urlString, body) ==
  IF body.threw
  THEN [value |-> Null, videoId |-> body.videoId, fault |-> TRUE,
        diag |-> << [input |-> urlString, error |-> "TypeError"] >>]
  ELSE [value |-> body.value, videoId |-> body.videoId, fault |-> FALSE,
        diag |-> << >>]

\* Lines 77-81: the catch clause, and the return out of the try block.
CatchClause(urlString, body) ==
  IF body.threw
  THEN [value |-> Null, videoId |-> body.videoId, fault |-> FALSE,
        diag |-> << [input |-> urlString, error |-> "TypeError"] >>]
  ELSE [value |-> body.value, videoId |-> body.videoId, fault |-> FALSE,
        diag |-> << >>]

\* Lines 22-82: what a call returns, the console.error records it emits, and
\* whether an exception leaves it.
getYouTubeEmbedUrl(urlString) == CatchClause(urlString, TryBody(urlString))


(***************************************************************************)
(* The transformer as a state machine: a caller hands it one string and    *)
(* may hand it its own result again.                                       *)
(***************************************************************************)

\* Bounds of the enumerated inputs.
MaxExtra == 1

Origins ==
  { "https://www.youtube.com", "http://youtube.com", "https://m.youtube.com",
    "https://music.youtube.com", "https://youtu.be", "https://example.com",
    "HTTPS://WWW.YouTube.com:443", "foo://youtu.be", "https://www.youtube.com.",
    "www.youtube.com", "https://you tube.com", "" }

Paths ==
  { "", "/", "/watch", "/watch/", "/embed/abc123", "/embed", "/shorts/xyz789",
    "/shorts/", "/shorts/a/../b c", "/live/abc123", "/live/x/embed/y",
    "/abc123", "//abc", "/%2e%2e/abc", "/playlist" }

VParams ==
  { "", "v=abc123", "v=", "v=..", "v=../shorts/x", "v=%2E%2E/watch%3Fv%3Dq",
    "v=a%3Fstart%3D9", "v=a%3Flist%3Dzz%26k", "v=a%23f", "v=a+b", "v=+" }

TParams == { "", "t=90", "t=75s", "t=007", "t=abc", "t=", "t=-5", "t=+7", "t=s9" }

ListParams == { "", "list=PL123_abc", "list=bad list!", "list=", "list=a%2Fb" }

ExtraParams == { "v=zzz", "t=5", "list=dup", "x=1" }

RECURSIVE ExtraRuns(_)
ExtraRuns(n) ==
  IF n = 0 THEN { "" }
  ELSE ExtraRuns(n - 1)
       \cup { r \o "&" \o e : r \in ExtraRuns(n - 1) \ { "" }, e \in ExtraParams }
       \cup ExtraParams

JoinAmp(a, b) == IF a = "" THEN b ELSE IF b = "" THEN a ELSE a \o "&" \o b

Queries ==
  { JoinAmp(JoinAmp(JoinAmp(v, t), l), x) :
      v \in VParams, t \in TParams, l \in ListParams, x \in ExtraRuns(MaxExtra) }

SmallQueries == { "", "v=abc123", "v=abc123&t=75s&list=PL123_abc", "t=90", "v=..", "list=x#frag" }

WithQuery(base, q) == IF q = "" THEN base ELSE base \o "?" \o q

Inputs ==
  { WithQuery(o \o p, q) : o \in Origins, p \in Paths, q \in SmallQueries }
  \cup { WithQuery(b, q) :
           b \in { "https://www.youtube.com/watch", "https://youtu.be/abc123" },
           q \in Queries }
  \cup { "not a url", " https://youtu.be/abc123 ", "mailto:someone", "https:youtu.be/q" }

VARIABLES
  urlString,   \* the argument of the call
  pc,          \* "ready", "returned", "reapplied"
  result,      \* the call's return value: null or a string
  videoId,     \* the local variable videoId when the call ended
  diag,        \* the console.error records the call emitted
  fault,       \* whether an exception left the call
  second,      \* the return value of the call on the first call's result
  tabs,        \* the browser's tabs: tab id -> url ("": the tab exposes none)
  active,      \* the active tab of the current window, 0 when there is none
  h            \* the command listener's invocations

tvars == << urlString, pc, result, videoId, diag, fault, second >>
hvars == << tabs, active, h >>
vars == << tvars, hvars >>

(***************************************************************************)
(* background.js: MODULE Chrome Extension Event Listener                   *)
(***************************************************************************)

\* Bound: how many times the hotkey command is delivered.
MaxHandlers == 2

Handlers == 1..MaxHandlers

TabIds == {1, 2}

Commands == {"modify_youtube_link", "some_other_command"}

\* The pages the user opens in a tab; "" is a tab without a url.
NavUrls == {"https://www.youtube.com/watch?v=abc123&t=75s", ""}

Pending == [kind |-> "pending", id |-> 0, url |-> ""]
Rejected == [kind |-> "reject", id |-> 0, url |-> ""]

\* What chrome.tabs.query({active, currentWindow}) resolves with: [] or [tab].
QueryAnswer ==
  IF active = 0 THEN [kind |-> "empty", id |-> 0, url |-> ""]
  ELSE [kind |-> "tab", id |-> active, url |-> tabs[active]]

\* One invocation of the listener before its command is delivered.  answer
\* is what the awaited query settled with and update what the awaited update
\* settled with (the invocation's locals); requests are its tab-update
\* requests the browser has not settled yet; calls counts its calls of
\* getYouTubeEmbedUrl, errors its console.error records; fault tells whether
\* an exception left it.
Idle ==
  [pc |-> "idle", answer |-> Pending, update |-> "none", requests |-> << >>,
   calls |-> 0, errors |-> 0, fault |-> FALSE]

\* The listener returns: its locals are gone.
Ended(rec) ==
  [rec EXCEPT !.pc = "done", !.answer = Pending, !.update = "none"]

NoTransformer ==
  /\ urlString = ""
  /\ pc = "ready"
  /\ result = Null
  /\ videoId = Null
  /\ diag = << >>
  /\ fault = FALSE
  /\ second = Null

NoHandler ==
  /\ tabs = [t \in TabIds |-> ""]
  /\ active = 0
  /\ h = [i \in Handlers |-> Idle]

Init ==
  /\ urlString \in Inputs
  /\ pc = "ready"
  /\ result = Null
  /\ videoId = Null
  /\ diag = << >>
  /\ fault = FALSE
  /\ second = Null
  /\ NoHandler

Returned(r) ==
  /\ result' = r.value
  /\ videoId' = r.videoId
  /\ diag' = r.diag
  /\ fault' = r.fault

\* The caller invokes getYouTubeEmbedUrl(urlString).
Call ==
  /\ pc = "ready"
  /\ Returned(getYouTubeEmbedUrl(urlString))
  /\ pc' = "returned"
  /\ UNCHANGED << urlString, second, hvars >>

\* The caller invokes getYouTubeEmbedUrl on the string the first call returned.
Reapply ==
  /\ pc = "returned"
  /\ result # Null
  /\ second' = Some(getYouTubeEmbedUrl(Val(result)).value)
  /\ pc' = "reapplied"
  /\ UNCHANGED << urlString, result, videoId, diag, fault, hvars >>

Next == Call \/ Reapply

Spec == Init /\ [][Next]_vars

(***************************************************************************)
(* Properties of getYouTubeEmbedUrl, checked under Spec.                   *)
(***************************************************************************)

\* The source URL and the returned URL as the platform parses them.
Source == ParseURL(urlString)
Target == ParseURL(Val(result))
SourceParams == SearchParams(Source)
TargetParams == SearchParams(Target)
ParamNames(params) == { params[i][1] : i \in 1..Len(params) }

\* C1: a call never ends by an exception; an input that does not parse as a
\* URL gives null and exactly one diagnostic record (holding that input), and
\* an input that parses gives no diagnostic record.
C1_Handled(parses) ==
  /\ ~fault
  /\ ~parses => (result = Null /\ Len(diag) = 1 /\ diag[1].input = urlString)
  /\ parses => diag = << >>

C1_HandledParseFailure == pc # "ready" => C1_Handled(Source.ok)

C1_Witness ==
  pc = "returned" /\ urlString = "not a url" /\ result = Null /\ Len(diag) = 1

\* C2: every non-null result begins with "https://www.youtube.com/embed/".
C2_EmbedPrefix ==
  result # Null => StartsWith(Val(result), "https://www.youtube.com/embed/")

\* C3: applying getYouTubeEmbedUrl to a non-null result of getYouTubeEmbedUrl
\* gives null.
C3_Idempotent == pc = "reapplied" => second = Some(Null)

\* The dispatch table of C4, read off a URL whose t and list parameters have
\* been removed.
C4_FirstParty(url) ==
  Hostname(url) \in {"youtube.com", "www.youtube.com", "m.youtube.com", "music.youtube.com"}

C4_Identifier(url) ==
  CASE C4_FirstParty(url) /\ url.pathname = "/watch" ->
         ParamsGet(RemoveNamed(RemoveNamed(SearchParams(url), "t"), "list"), "v")
    [] C4_FirstParty(url) /\ url.pathname # "/watch"
         /\ StartsWith(url.pathname, "/shorts/") -> Some(Substring(url.pathname, 8))
    [] C4_FirstParty(url) /\ url.pathname # "/watch"
         /\ ~StartsWith(url.pathname, "/shorts/")
         /\ StartsWith(url.pathname, "/live/") -> Some(Substring(url.pathname, 6))
    [] ~C4_FirstParty(url) /\ Hostname(url) = "youtu.be" ->
         Some(Substring(url.pathname, 1))
    [] OTHER -> Null

\* C4: for a parseable input the result is non-null exactly when the path does
\* not begin with /embed/ and the first matching row of the dispatch table
\* gives a non-empty identifier, which is then the identifier used; neither
\* depends on the t and list parameters.
C4_Row(url, identifier) ==
  /\ result # Null <=>
       /\ ~StartsWith(url.pathname, "/embed/")
       /\ identifier # Null
       /\ identifier # Some("")
  /\ result # Null => videoId = identifier

C4_Parsed(url) == url.ok => C4_Row(url, C4_Identifier(url))

C4_DispatchTable == pc # "ready" => C4_Parsed(Source)

C4_Witness ==
  /\ pc = "returned"
  /\ urlString = "https://m.youtube.com/live/abc123?t=90"
  /\ videoId = Some("abc123")
  /\ result # Null

\* The longest leading run of decimal digits of a string.
C5_DigitRun(str) == SubSeq(str, 1, PrefixLen(str, Digit))

\* C5: when the result is non-null and the source carries t, the result has a
\* start parameter exactly when the value of t begins with a decimal digit,
\* and start is then the integer its leading run of digits denotes.
C5_StartFromDigitRun ==
  (result # Null /\ ParamsHas(SourceParams, "t")) =>
    /\ ParamsHas(TargetParams, "start")
         <=> C5_DigitRun(Val(ParamsGet(SourceParams, "t"))) # ""
    /\ ParamsHas(TargetParams, "start") =>
         ParamsGet(TargetParams, "start") =
           Some(NatToString(DigitsToNat(C5_DigitRun(Val(ParamsGet(SourceParams, "t"))))))

\* C6: when the result is non-null and the source carries list, the result has
\* a list parameter exactly when the whole source value is one or more of
\* [a-zA-Z0-9_-], and the result's value is then the source's value.
C6_ListCopiedWhenValid ==
  (result # Null /\ ParamsHas(SourceParams, "list")) =>
    /\ ParamsHas(TargetParams, "list")
         <=> /\ Val(ParamsGet(SourceParams, "list")) # ""
             /\ AllIn(Val(ParamsGet(SourceParams, "list")),
                      SetOf("abcdefghijklmnopqrstuvwxyzABCDEFGHIJKLMNOPQRSTUVWXYZ0123456789_-"))
    /\ ParamsHas(TargetParams, "list") =>
         ParamsGet(TargetParams, "list") = ParamsGet(SourceParams, "list")

\* C9: in a non-null result the identifier contributes only to the path: the
\* result's parameters are among start and list, start only when the source
\* carries t, list only when the source carries list, and there is no fragment.
C9_IdentifierOnlyInPath ==
  result # Null =>
    /\ ParamNames(TargetParams) \subseteq {"start", "list"}
    /\ ParamsHas(TargetParams, "start") => ParamsHas(SourceParams, "t")
    /\ ParamsHas(TargetParams, "list") => ParamsHas(SourceParams, "list")
    /\ Target.fragment = Null

(***************************************************************************)
(* The command listener (lines 91-119) and the browser around it.          *)
(***************************************************************************)

\* A listener without the try/catch: the rejection leaves it as an exception.
NoCatchHandler(rec) == Ended([rec EXCEPT !.fault = TRUE])

\* Lines 115-117: the catch clause logs and the listener returns normally.
CatchHandler(rec) == Ended([rec EXCEPT !.errors = @ + 1])

\* An update of whichever tab is selected when the request is issued.
UpdateRequestSelectedTab(tab, newUrl) == [tabId |-> active, url |-> newUrl]

\* Line 112: chrome.tabs.update(tab.id, {url: newUrl}).
UpdateRequest(tab, newUrl) == [tabId |-> tab.id, url |-> newUrl]

\* Lines 110-113: newUrl is what getYouTubeEmbedUrl returned (line 106).
AfterTransform(rec, newUrl) ==
  IF newUrl # Null
  THEN [rec EXCEPT !.pc = "awaitUpdate", !.calls = @ + 1,
                   !.requests = Append(@, UpdateRequest(rec.answer, Val(newUrl)))]
  ELSE Ended([rec EXCEPT !.calls = @ + 1])

\* Line 105: tab?.url
HasUrl(answer) == answer.kind = "tab" /\ answer.url # ""

\* Lines 98-117, from the point where the awaited query settles.
AfterQuery(rec) ==
  IF rec.answer.kind = "reject" THEN CatchHandler(rec)
  ELSE IF ~HasUrl(rec.answer) THEN Ended(rec)
  ELSE AfterTransform(rec, getYouTubeEmbedUrl(rec.answer.url).value)

\* Lines 112-117, from the point where the awaited update settles.
AfterUpdate(rec) ==
  IF rec.update = "rejected" THEN CatchHandler(rec) ELSE Ended(rec)

\* Lines 91-101: the command is delivered to a new invocation of the listener,
\* which either ignores it or calls chrome.tabs.query and suspends.
Command(i, c) ==
  /\ h[i].pc = "idle"
  /\ \A j \in Handlers : j < i => h[j].pc # "idle"
  /\ h' = [h EXCEPT ![i].pc = IF c = "modify_youtube_link" THEN "awaitQuery"
                              ELSE "done"]
  /\ UNCHANGED << tvars, tabs, active >>

\* The browser answers the query with the active tab as it is now.
QueryResolves(i) ==
  /\ h[i].pc = "awaitQuery"
  /\ h' = [h EXCEPT ![i].answer = QueryAnswer, ![i].pc = "queryAnswered"]
  /\ UNCHANGED << tvars, tabs, active >>

\* The browser fails the query.
QueryRejects(i) ==
  /\ h[i].pc = "awaitQuery"
  /\ h' = [h EXCEPT ![i].answer = Rejected, ![i].pc = "queryAnswered"]
  /\ UNCHANGED << tvars, tabs, active >>

\* The listener resumes after await chrome.tabs.query and runs to its next
\* await or to its end.
Resume(i) ==
  /\ h[i].pc = "queryAnswered"
  /\ h' = [h EXCEPT ![i] = AfterQuery(h[i])]
  /\ UNCHANGED << tvars, tabs, active >>

\* The browser performs the requested update: the tab navigates.
UpdateResolves(i) ==
  /\ h[i].pc = "awaitUpdate"
  /\ h[i].requests # << >>
  /\ tabs' = [tabs EXCEPT ![Head(h[i].requests).tabId] = Head(h[i].requests).url]
  /\ h' = [h EXCEPT ![i].pc = "updateSettled", ![i].update = "resolved",
                    ![i].requests = Tail(@)]
  /\ UNCHANGED << tvars, active >>

\* The browser fails the requested update.
UpdateRejects(i) ==
  /\ h[i].pc = "awaitUpdate"
  /\ h[i].requests # << >>
  /\ h' = [h EXCEPT ![i].pc = "updateSettled", ![i].update = "rejected",
                    ![i].requests = Tail(@)]
  /\ UNCHANGED << tvars, tabs, active >>

\* The listener resumes after await chrome.tabs.update and ends.
Finish(i) ==
  /\ h[i].pc = "updateSettled"
  /\ h' = [h EXCEPT ![i] = AfterUpdate(h[i])]
  /\ UNCHANGED << tvars, tabs, active >>

\* The user opens another page in a tab.
Navigate(t, u) ==
  /\ tabs[t] # u
  /\ tabs' = [tabs EXCEPT ![t] = u]
  /\ UNCHANGED << tvars, active, h >>

\* The user switches tabs, or leaves the window without an active tab.
Activate(a) ==
  /\ active # a
  /\ active' = a
  /\ UNCHANGED << tvars, tabs, h >>

HandlerInit ==
  /\ NoTransformer
  /\ tabs \in [TabIds -> NavUrls]
  /\ active \in TabIds \cup {0}
  /\ h = [i \in Handlers |-> Idle]

HandlerNext ==
  \/ \E i \in Handlers, c \in Commands : Command(i, c)
  \/ \E i \in Handlers : QueryResolves(i)
  \/ \E i \in Handlers : QueryRejects(i)
  \/ \E i \in Handlers : Resume(i)
  \/ \E i \in Handlers : UpdateResolves(i)
  \/ \E i \in Handlers : UpdateRejects(i)
  \/ \E i \in Handlers : Finish(i)
  \/ \E t \in TabIds, u \in NavUrls : Navigate(t, u)
  \/ \E a \in TabIds \cup {0} : Activate(a)

HandlerSpec == HandlerInit /\ [][HandlerNext]_vars

(***************************************************************************)
(* Properties of the command listener, checked under HandlerSpec.  They    *)
(* are properties of steps: what the invocation that takes the step does.  *)
(***************************************************************************)

\* Invocation i takes the step from its await of chrome.tabs.query.
Resumes(i) == h[i].pc = "queryAnswered" /\ h'[i].pc # "queryAnswered"

\* Invocation i issues a tab-update request in the step.
Issues(i) == Len(h'[i].requests) > Len(h[i].requests)

\* The condition C7 gives for a navigation request.
C7_ShouldNavigate(i) ==
  /\ Resumes(i)
  /\ h[i].answer.kind = "tab"
  /\ h[i].answer.url # ""
  /\ getYouTubeEmbedUrl(h[i].answer.url).value # Null

\* C7: an invocation issues a tab-update request exactly when its command is
\* modify_youtube_link, the query gave a tab with a non-empty url and
\* getYouTubeEmbedUrl of that url is non-null; it then issues exactly one, for
\* the queried tab's id, with exactly the transformer's result as its url.
\* Only a modify_youtube_link command makes the listener query, so a step that
\* delivers a command, or any step other than the one resuming from the
\* query, must issue nothing.
C7_NavigatesExactlyWhenTransformed ==
  [][\A i \in Handlers :
       IF C7_ShouldNavigate(i)
       THEN /\ h'[i].requests = Append(h[i].requests, h'[i].requests[Len(h'[i].requests)])
            /\ h'[i].requests[Len(h'[i].requests)].tabId = h[i].answer.id
            /\ Some(h'[i].requests[Len(h'[i].requests)].url)
                 = getYouTubeEmbedUrl(h[i].answer.url).value
       ELSE ~Issues(i)]_vars

C7_Witness ==
  \E i, j \in Handlers :
    /\ h[i].pc = "awaitUpdate" /\ h[i].answer.id = 2
    /\ h[i].requests =
         << [tabId |-> 2, url |-> "https://www.youtube.com/embed/abc123?start=75"] >>
    /\ h[j].pc = "done" /\ h[j].calls = 1 /\ h[j].errors = 0

\* C8: no exception leaves the listener; with no tab, or a tab without a url,
\* it ends without calling getYouTubeEmbedUrl and without a navigation
\* request; a failed query or a failed update is caught and the listener ends.
C8_NeverPropagatesFault ==
  [][\A i \in Handlers :
       /\ ~h'[i].fault
       /\ (Resumes(i) /\ (h[i].answer.kind = "empty"
                          \/ (h[i].answer.kind = "tab" /\ h[i].answer.url = ""))) =>
            (h'[i].pc = "done" /\ h'[i].calls = h[i].calls /\ ~Issues(i)
             /\ h'[i].errors = h[i].errors)
       /\ (Resumes(i) /\ h[i].answer.kind = "reject") =>
            (h'[i].pc = "done" /\ h'[i].calls = h[i].calls /\ ~Issues(i)
             /\ h'[i].errors = h[i].errors + 1)
       /\ (h[i].pc = "updateSettled" /\ h'[i].pc # "updateSettled") =>
            (h'[i].pc = "done"
             /\ h'[i].errors = h[i].errors + (IF h[i].update = "rejected" THEN 1 ELSE 0))
    ]_vars

C8_Witness ==
  \E i, j \in Handlers :
    /\ h[i].pc = "done" /\ h[i].calls = 0 /\ h[i].errors = 1
    /\ h[j].pc = "done" /\ h[j].calls = 1 /\ h[j].errors = 1

\* C10: every navigation request carries the transformation of the url its
\* tab holds when the request is issued (so that tab's path does not begin
\* with /embed/ at that moment).
C10_RequestMatchesCurrentUrl ==
  [][\A i \in Handlers :
       Issues(i) =>
         getYouTubeEmbedUrl(tabs[h'[i].requests[Len(h'[i].requests)].tabId]).value
           = Some(h'[i].requests[Len(h'[i].requests)].url)]_vars

====
